---- MODULE Spec2Model ----
(***************************************************************************)
(* The ERC20 token contract of 2/assets/2.4-template.rs as a state         *)
(* machine: the storage cells of struct Erc20, the log of deposited        *)
(* events, and one action per external message (transfer, approve,         *)
(* transfer_from).  Balance is a fixed-width unsigned integer; its width   *)
(* is scaled down to BalanceBits bits, and `+` on it is Rust's unchecked   *)
(* operator: a panic when the build checks overflow, a wrap when it does   *)
(* not.                                                                    *)
(***************************************************************************)
EXTENDS Integers, Sequences, FiniteSets, TLC

VARIABLES
    total_supply,   \* storage::Value<Balance>
    balances,       \* storage::HashMap<AccountId, Balance>
    allowances,     \* storage::HashMap<(AccountId, AccountId), Balance>
    events,         \* the events deposited so far, oldest first
    calls,          \* the messages executed so far with their results, oldest first
    pre             \* the storage and the log length as the latest message found them

vars == <<total_supply, balances, allowances, events, calls, pre>>

\* ------------------------------------------------------------------ bounds
\* Width of Balance in bits (u128 in ink_core, scaled down).
BalanceBits == 3
\* Number of messages executed after deploy (three accounts).
MaxCalls == 2
\* Number of messages executed after deploy in the two-account runs.
MaxDeepCalls == 4

\* ------------------------------------------------------------------ types
Accounts == {"alice", "bob", "charlie"}

\* Option<AccountId>::None
None == "none"

Pow2(n) == 2 ^ n

MaxBalance == Pow2(BalanceBits) - 1

\* Values the callers pass: zero, one, and the largest Balance.
Values == {0, 1, MaxBalance}

\* Initial supply passed to deploy: one below the largest Balance.
InitValues == {MaxBalance - 1}

\* The tests deploy as alice.
Deployers == {"alice"}

\* The two-account runs: longer call sequences over fewer inputs.
DeepAccounts == {"alice", "bob"}

DeepValues == {1, MaxBalance}

DeepInitValues == {MaxBalance}

\* storage::HashMap::insert: overwrite or create the entry.
insert(m, k, v) == [x \in (DOMAIN m) \cup {k} |-> IF x = k THEN v ELSE m[x]]

\* Event::Transfer and its encoding into the log.
TransferEvent(from, to, value) ==
    [type |-> "Transfer", from |-> from, to |-> to, value |-> value]

\* Event::Approval.
ApprovalEvent(owner, spender, value) ==
    [type |-> "Approval", owner |-> owner, spender |-> spender, value |-> value]

\* ------------------------------------------------------------------ queries
\* balance_of_or_zero with a default of one for a missing entry.
balance_of_or_one(bal, of) == IF of \in DOMAIN bal THEN bal[of] ELSE 1

balance_of_or_zero(bal, of) == IF of \in DOMAIN bal THEN bal[of] ELSE 0

allowance_or_zero(alw, owner, spender) ==
    IF <<owner, spender>> \in DOMAIN alw THEN alw[<<owner, spender>>] ELSE 0

balance_of(owner) == balance_of_or_zero(balances, owner)

allowance(owner, spender) == allowance_or_zero(allowances, owner, spender)

\* ------------------------------------------------------------------ transfer_impl
\* The outcomes of `balance_to + value` on Balance: the sum when it fits;
\* otherwise a panic (overflow checks on) or the wrapped sum (checks off).
add_balance(a, b) ==
    IF a + b <= MaxBalance
    THEN {[panic |-> FALSE, value |-> a + b]}
    ELSE {[panic |-> TRUE, value |-> 0],
          [panic |-> FALSE, value |-> (a + b) % Pow2(BalanceBits)]}

\* transfer_impl with the balance check off by one: a value one above the
\* balance passes.
transfer_impl_loose(bal, from, to, value) ==
    LET balance_from == balance_of_or_zero(bal, from)
        balance_to   == balance_of_or_zero(bal, to)
    IN  IF balance_from + 1 < value
        THEN {[result |-> "false", balances |-> bal, events |-> <<>>]}
        ELSE LET debited == insert(bal, from, balance_from - value)
             IN  { IF s.panic
                   THEN [result |-> "trap", balances |-> bal, events |-> <<>>]
                   ELSE [result   |-> "true",
                         balances |-> insert(debited, to, s.value),
                         events   |-> <<TransferEvent(from, to, value)>>]
                   : s \in add_balance(balance_to, value) }

\* transfer_impl refusing a value equal to the balance: `<=` for `<`.
transfer_impl_strict(bal, from, to, value) ==
    LET balance_from == balance_of_or_zero(bal, from)
        balance_to   == balance_of_or_zero(bal, to)
    IN  IF balance_from <= value
        THEN {[result |-> "false", balances |-> bal, events |-> <<>>]}
        ELSE LET debited == insert(bal, from, balance_from - value)
             IN  { IF s.panic
                   THEN [result |-> "trap", balances |-> bal, events |-> <<>>]
                   ELSE [result   |-> "true",
                         balances |-> insert(debited, to, s.value),
                         events   |-> <<TransferEvent(from, to, value)>>]
                   : s \in add_balance(balance_to, value) }

\* transfer_impl writing the two entries into a fresh map: the balances of
\* the other accounts are lost.
transfer_impl_fresh_map(bal, from, to, value) ==
    LET balance_from == balance_of_or_zero(bal, from)
        balance_to   == balance_of_or_zero(bal, to)
    IN  IF balance_from < value
        THEN {[result |-> "false", balances |-> bal, events |-> <<>>]}
        ELSE LET debited == insert(<<>>, from, balance_from - value)
             IN  { IF s.panic
                   THEN [result |-> "trap", balances |-> bal, events |-> <<>>]
                   ELSE [result   |-> "true",
                         balances |-> insert(debited, to, s.value),
                         events   |-> <<TransferEvent(from, to, value)>>]
                   : s \in add_balance(balance_to, value) }

\* The set of outcomes of transfer_impl on the balance map bal.  Both
\* balances are read before either insert; a panic traps the message and the
\* host discards its storage writes.
transfer_impl(bal, from, to, value) ==
    LET balance_from == balance_of_or_zero(bal, from)
        balance_to   == balance_of_or_zero(bal, to)
    IN  IF balance_from < value
        THEN {[result |-> "false", balances |-> bal, events |-> <<>>]}
        ELSE LET debited == insert(bal, from, balance_from - value)
             IN  { IF s.panic
                   THEN [result |-> "trap", balances |-> bal, events |-> <<>>]
                   ELSE [result   |-> "true",
                         balances |-> insert(debited, to, s.value),
                         events   |-> <<TransferEvent(from, to, value)>>]
                   : s \in add_balance(balance_to, value) }

\* ------------------------------------------------------------------ transfer_from
\* transfer_from reading the allowance of the wrong pair: what `from` granted
\* to `to`, not to the caller.
transfer_from_wrong_pair(bal, alw, caller, from, to, value) ==
    LET allowed == allowance_or_zero(alw, from, to)
    IN  IF allowed < value
        THEN {[result |-> "false", balances |-> bal, allowances |-> alw,
               events |-> <<>>]}
        ELSE { [result     |-> o.result,
                balances   |-> o.balances,
                allowances |-> IF o.result = "true"
                               THEN insert(alw, <<from, to>>, allowed - value)
                               ELSE alw,
                events     |-> o.events]
               : o \in transfer_impl(bal, from, to, value) }

\* The set of outcomes of transfer_from for caller: the allowance check, the
\* allowance decrement, then transfer_impl; a result other than true leaves
\* the allowance as it was.
transfer_from(bal, alw, caller, from, to, value) ==
    LET allowed == allowance_or_zero(alw, from, caller)
    IN  IF allowed < value
        THEN {[result |-> "false", balances |-> bal, allowances |-> alw,
               events |-> <<>>]}
        ELSE { [result     |-> o.result,
                balances   |-> o.balances,
                allowances |-> IF o.result = "true"
                               THEN insert(alw, <<from, caller>>, allowed - value)
                               ELSE alw,
                events     |-> o.events]
               : o \in transfer_impl(bal, from, to, value) }

\* ------------------------------------------------------------------ approve
\* approve adding to the allowance already stored.
approve_cumulative(alw, caller, spender, value) ==
    [result     |-> "true",
     allowances |-> insert(alw, <<caller, spender>>,
                           allowance_or_zero(alw, caller, spender) + value),
     events     |-> <<ApprovalEvent(caller, spender, value)>>]

\* approve keyed by the unordered pair: it writes (spender, caller) as well.
approve_unordered(alw, caller, spender, value) ==
    [result     |-> "true",
     allowances |-> insert(insert(alw, <<caller, spender>>, value),
                           <<spender, caller>>, value),
     events     |-> <<ApprovalEvent(caller, spender, value)>>]

approve(alw, caller, spender, value) ==
    [result     |-> "true",
     allowances |-> insert(alw, <<caller, spender>>, value),
     events     |-> <<ApprovalEvent(caller, spender, value)>>]

\* ------------------------------------------------------------------ state machine
\* The storage and the log as a message finds them.
Snapshot ==
    [total_supply |-> total_supply, balances |-> balances,
     allowances |-> allowances, nevents |-> Len(events)]

Call(op, caller, from, to, value, result) ==
    [op |-> op, caller |-> caller, from |-> from, to |-> to, value |-> value,
     result |-> result]

\* deploy that deposits the mint with the deployer as its source.
deploy_from_caller(deployer, init_value) ==
    /\ total_supply = init_value
    /\ balances = insert(<<>>, deployer, init_value)
    /\ allowances = <<>>
    /\ events = <<TransferEvent(deployer, deployer, init_value)>>
    /\ calls = <<Call("deploy", deployer, None, deployer, init_value, "true")>>
    /\ pre = [total_supply |-> 0, balances |-> <<>>, allowances |-> <<>>,
              nevents |-> 0]

\* deploy(init_value) called by deployer.
deploy(deployer, init_value) ==
    /\ total_supply = init_value
    /\ balances = insert(<<>>, deployer, init_value)
    /\ allowances = <<>>
    /\ events = <<TransferEvent(None, deployer, init_value)>>
    /\ calls = <<Call("deploy", deployer, None, deployer, init_value, "true")>>
    /\ pre = [total_supply |-> 0, balances |-> <<>>, allowances |-> <<>>,
              nevents |-> 0]

Init == \E deployer \in Deployers, init_value \in InitValues :
            deploy(deployer, init_value)

DeepInit == \E deployer \in Deployers, init_value \in DeepInitValues :
                deploy(deployer, init_value)

\* transfer that takes the value of a successful self-transfer off the
\* total supply.
Transfer_burning(A, V, cap) ==
    /\ Len(calls) <= cap
    /\ \E caller \in A, to \in A, value \in V :
         \E o \in transfer_impl(balances, caller, to, value) :
            /\ balances' = o.balances
            /\ events' = events \o o.events
            /\ calls' = Append(calls,
                               Call("transfer", caller, caller, to, value, o.result))
            /\ total_supply' = IF o.result = "true" /\ caller = to
                               THEN total_supply - value
                               ELSE total_supply
    /\ pre' = Snapshot
    /\ UNCHANGED allowances

\* transfer(to, value) sent by caller.
Transfer(A, V, cap) ==
    /\ Len(calls) <= cap
    /\ \E caller \in A, to \in A, value \in V :
         \E o \in transfer_impl(balances, caller, to, value) :
            /\ balances' = o.balances
            /\ events' = events \o o.events
            /\ calls' = Append(calls,
                               Call("transfer", caller, caller, to, value, o.result))
    /\ pre' = Snapshot
    /\ UNCHANGED <<total_supply, allowances>>

\* approve(spender, value) sent by caller.
Approve(A, V, cap) ==
    /\ Len(calls) <= cap
    /\ \E caller \in A, spender \in A, value \in V :
         LET o == approve(allowances, caller, spender, value)
         IN  /\ allowances' = o.allowances
             /\ events' = events \o o.events
             /\ calls' = Append(calls,
                                Call("approve", caller, caller, spender, value, o.result))
    /\ pre' = Snapshot
    /\ UNCHANGED <<total_supply, balances>>

\* transfer_from(from, to, value) sent by caller.
TransferFrom(A, V, cap) ==
    /\ Len(calls) <= cap
    /\ \E caller \in A, from \in A, to \in A, value \in V :
         \E o \in transfer_from(balances, allowances, caller, from, to, value) :
            /\ balances' = o.balances
            /\ allowances' = o.allowances
            /\ events' = events \o o.events
            /\ calls' = Append(calls,
                               Call("transfer_from", caller, from, to, value, o.result))
    /\ pre' = Snapshot
    /\ UNCHANGED total_supply

Next ==
    \/ Transfer(Accounts, Values, MaxCalls)
    \/ Approve(Accounts, Values, MaxCalls)
    \/ TransferFrom(Accounts, Values, MaxCalls)

Spec == Init /\ [][Next]_vars

\* Two accounts, longer call sequences.
DeepNext ==
    \/ Transfer(DeepAccounts, DeepValues, MaxDeepCalls)
    \/ Approve(DeepAccounts, DeepValues, MaxDeepCalls)
    \/ TransferFrom(DeepAccounts, DeepValues, MaxDeepCalls)

DeepSpec == DeepInit /\ [][DeepNext]_vars

\* ------------------------------------------------------------------ observations
\* The latest message with its result.
Last == calls[Len(calls)]

\* balance_of(a) and allowance(o, s) as the latest message found them.
PreBalance(a) == balance_of_or_zero(pre.balances, a)

PreAllowance(o, s) == allowance_or_zero(pre.allowances, o, s)

\* The events the latest message deposited.
Emitted == SubSeq(events, pre.nevents + 1, Len(events))

BalancesUnchanged == \A a \in Accounts : balance_of(a) = PreBalance(a)

AllowancesUnchanged ==
    \A o \in Accounts, s \in Accounts : allowance(o, s) = PreAllowance(o, s)

NothingChanged ==
    /\ BalancesUnchanged
    /\ AllowancesUnchanged
    /\ total_supply = pre.total_supply
    /\ Emitted = <<>>

RECURSIVE SumBalances(_)
SumBalances(S) ==
    IF S = {} THEN 0
    ELSE LET a == CHOOSE x \in S : TRUE
         IN  balance_of(a) + SumBalances(S \ {a})

\* The latest message reached transfer_impl: a transfer, or a transfer_from
\* whose allowance check passed.
RanTransferImpl ==
    \/ Last.op = "transfer"
    \/ /\ Last.op = "transfer_from"
       /\ PreAllowance(Last.from, Last.caller) >= Last.value

\* ------------------------------------------------------------------ claims
\* C1. Conservation: in every reachable state the balances of all accounts
\* sum to total_supply.
C1_Conservation == SumBalances(Accounts) = total_supply

\* C2. Self-transfer: when transfer_impl runs with source = destination and
\* value <= the source's balance, the message returns true, the account's
\* balance is what it was, and exactly one Transfer event is deposited.
C2_SelfTransfer ==
    (/\ RanTransferImpl
     /\ Last.from = Last.to
     /\ Last.value <= PreBalance(Last.from))
    => /\ Last.result = "true"
       /\ balance_of(Last.from) = PreBalance(Last.from)
       /\ Emitted = <<TransferEvent(Last.from, Last.to, Last.value)>>

\* C3. Insufficient balance: transfer(to, value) by a caller whose balance is
\* below value returns false, changes no balance, no allowance and not the
\* total supply, and deposits no event.
C3_InsufficientBalance ==
    (/\ Last.op = "transfer"
     /\ PreBalance(Last.caller) < Last.value)
    => /\ Last.result = "false"
       /\ NothingChanged

\* A caller holding tokens asked for more than it holds.
C3_Witness ==
    /\ Last.op = "transfer"
    /\ PreBalance(Last.caller) > 0
    /\ PreBalance(Last.caller) < Last.value
    /\ Last.to # Last.caller

\* C4. Transfer between distinct accounts: transfer(to, value) by caller # to
\* with value <= balance_of(caller) returns true, takes exactly value from
\* the caller, gives exactly value to `to`, and deposits exactly one
\* Transfer{from: Some(caller), to: Some(to), value}.
C4_TransferDistinct ==
    (/\ Last.op = "transfer"
     /\ Last.caller # Last.to
     /\ Last.value <= PreBalance(Last.caller))
    => /\ Last.result = "true"
       /\ balance_of(Last.caller) = PreBalance(Last.caller) - Last.value
       /\ balance_of(Last.to) = PreBalance(Last.to) + Last.value
       /\ Emitted = <<TransferEvent(Last.caller, Last.to, Last.value)>>

\* C5. transfer_from(from, to, value) by a caller whose allowance from `from`
\* is below value returns false and changes nothing, whatever from's balance
\* and whatever from granted to other spenders.
C5_InsufficientAllowance ==
    (/\ Last.op = "transfer_from"
     /\ PreAllowance(Last.from, Last.caller) < Last.value)
    => /\ Last.result = "false"
       /\ NothingChanged

\* The owner could pay and had granted enough to another spender, not to
\* the caller.
C5_Witness ==
    /\ Last.op = "transfer_from"
    /\ PreAllowance(Last.from, Last.caller) < Last.value
    /\ PreBalance(Last.from) >= Last.value
    /\ \E s \in Accounts \ {Last.caller, Last.from} :
          PreAllowance(Last.from, s) >= Last.value

C7_TransferFromDistinct ==
    (/\ Last.op = "transfer_from"
     /\ Last.from # Last.to
     /\ PreAllowance(Last.from, Last.caller) >= Last.value
     /\ PreBalance(Last.from) >= Last.value)
    => /\ Last.result = "true"
       /\ allowance(Last.from, Last.caller)
            = PreAllowance(Last.from, Last.caller) - Last.value
       /\ balance_of(Last.from) = PreBalance(Last.from) - Last.value
       /\ balance_of(Last.to) = PreBalance(Last.to) + Last.value
       /\ Emitted = <<TransferEvent(Last.from, Last.to, Last.value)>>

\* C8. approve(spender, value) returns true for any caller, sets
\* allowance(caller, spender) to exactly value, and deposits exactly one
\* Approval{owner: caller, spender, value}.
C8_ApproveOverwrites ==
    Last.op = "approve"
    => /\ Last.result = "true"
       /\ allowance(Last.caller, Last.to) = Last.value
       /\ Emitted = <<ApprovalEvent(Last.caller, Last.to, Last.value)>>

\* An approve by a caller without tokens over an allowance that was not zero.
C8_Witness ==
    /\ Last.op = "approve"
    /\ Last.value > 0
    /\ PreAllowance(Last.caller, Last.to) > 0
    /\ balance_of(Last.caller) = 0

\* What spender moved out of owner by successful transfer_from messages
\* since owner's latest approve(spender, _), over the first n messages.
RECURSIVE Spent(_, _, _)
Spent(owner, spender, n) ==
    IF n = 0 THEN 0
    ELSE LET c == calls[n]
         IN  IF c.op = "approve" /\ c.caller = owner /\ c.to = spender
             THEN 0
             ELSE IF /\ c.op = "transfer_from"
                     /\ c.result = "true"
                     /\ c.from = owner
                     /\ c.caller = spender
                  THEN c.value + Spent(owner, spender, n - 1)
                  ELSE Spent(owner, spender, n - 1)

\* The value of owner's latest approve(spender, _) among the first n
\* messages, 0 when there is none.
RECURSIVE Granted(_, _, _)
Granted(owner, spender, n) ==
    IF n = 0 THEN 0
    ELSE LET c == calls[n]
         IN  IF c.op = "approve" /\ c.caller = owner /\ c.to = spender
             THEN c.value
             ELSE Granted(owner, spender, n - 1)

C10_OverflowAtomic ==
    (/\ RanTransferImpl
     /\ PreBalance(Last.from) >= Last.value
     /\ PreBalance(Last.to) + Last.value > MaxBalance)
    => /\ Last.result = "trap"
       /\ NothingChanged

\* The account that deployed and the supply it passed.
Deployer == calls[1].caller

InitValue == calls[1].value

\* Message n moved tokens: a transfer or transfer_from that returned true.
Moved(n) ==
    /\ calls[n].op \in {"transfer", "transfer_from"}
    /\ calls[n].result = "true"

\* C11. Total supply is fixed: total_supply is the init_value of deploy in
\* every reachable state, and no message, successful or not, changes it.
C11_TotalSupplyFixed ==
    /\ total_supply = InitValue
    /\ Len(calls) > 1 => total_supply = pre.total_supply

\* A transfer that moved tokens, and a supply that is not zero.
C11_Witness ==
    /\ Last.op = "transfer"
    /\ Last.result = "true"
    /\ Last.value > 0
    /\ total_supply > 0

\* C12. Initialization: right after deploy(init_value) by d the total supply
\* and d's balance are init_value, every other balance and every allowance
\* is 0, and the log holds exactly Transfer{None, Some(d), init_value}.
C12_Initialization ==
    Len(calls) = 1
    => /\ Last.op = "deploy"
       /\ total_supply = InitValue
       /\ balance_of(Deployer) = InitValue
       /\ \A a \in Accounts \ {Deployer} : balance_of(a) = 0
       /\ \A o \in Accounts, s \in Accounts : allowance(o, s) = 0
       /\ events = <<TransferEvent(None, Deployer, InitValue)>>

\* deploy has run with a supply above zero and no message has followed.
C12_Witness ==
    /\ Len(calls) = 1
    /\ Last.op = "deploy"
    /\ Last.value > 0

\* C13. Zero default: balance_of(a) is 0 for every account that is not the
\* deployer and was never the destination of a transfer or transfer_from
\* that returned true; allowance(o, s) is 0 for every pair for which o never
\* sent approve(s, _).  Stated contrapositively: a balance or an allowance
\* that is not 0 has such a message in the history.
C13_ZeroDefault ==
    /\ \A a \in Accounts \ {Deployer} :
          \/ balance_of(a) = 0
          \/ \E n \in 2..Len(calls) : Moved(n) /\ calls[n].to = a
    /\ \A o \in Accounts, s \in Accounts :
          \/ allowance(o, s) = 0
          \/ \E n \in 2..Len(calls) :
                calls[n].op = "approve" /\ calls[n].caller = o /\ calls[n].to = s

\* One account received tokens and one pair was approved above zero, while
\* another account and the reverse pair were never touched.
C13_Witness ==
    /\ \E n \in 2..Len(calls) :
          /\ Moved(n) /\ calls[n].value > 0 /\ calls[n].to # Deployer
    /\ \E n \in 2..Len(calls) :
          /\ calls[n].op = "approve" /\ calls[n].value > 0
    /\ \E a \in Accounts \ {Deployer} :
          \A n \in 2..Len(calls) : ~(Moved(n) /\ calls[n].to = a)

\* C14. Authorization safety: the balance of an account a decreases in a
\* step only if the step is a transfer sent by a, or a transfer_from(a, _,
\* value) sent by an account whose allowance from a was >= value before the
\* step; approve and messages that do not return true decrease no balance.
C14_AuthorizedDebit ==
    \A a \in Accounts :
        balance_of(a) < PreBalance(a)
        => /\ Last.result = "true"
           /\ \/ Last.op = "transfer" /\ Last.caller = a
              \/ /\ Last.op = "transfer_from"
                 /\ Last.from = a
                 /\ PreAllowance(a, Last.caller) >= Last.value

\* C15. approve(spender, value) by caller changes only the allowance entry
\* (caller, spender): the entry (spender, caller), every other allowance,
\* every balance and the total supply stay as they were.
C15_ApproveFrame ==
    Last.op = "approve"
    => /\ \A o \in Accounts, s \in Accounts :
             <<o, s>> # <<Last.caller, Last.to>>
             => allowance(o, s) = PreAllowance(o, s)
       /\ BalancesUnchanged
       /\ total_supply = pre.total_supply

\* An approve that changed (caller, spender) while the reverse pair held a
\* different allowance above zero.
C15_Witness ==
    /\ Last.op = "approve"
    /\ Last.caller # Last.to
    /\ allowance(Last.caller, Last.to) # PreAllowance(Last.caller, Last.to)
    /\ PreAllowance(Last.to, Last.caller) > 0
    /\ PreAllowance(Last.to, Last.caller) # Last.value

\* C16. Non-negativity: every value stored in balances and in allowances is
\* >= 0: no debit and no allowance decrement takes more than is stored.
C16_NonNegative ==
    /\ \A a \in DOMAIN balances : balances[a] >= 0
    /\ \A k \in DOMAIN allowances : allowances[k] >= 0

\* A debit between distinct accounts took a whole balance above zero.
C16_Witness ==
    /\ RanTransferImpl
    /\ Last.result = "true"
    /\ Last.from # Last.to
    /\ Last.value > 0
    /\ Last.value = PreBalance(Last.from)
    /\ balance_of(Last.from) = 0

\* C17. Credit overflow is unreachable: whenever transfer_impl passes its
\* balance check, destination balance + value does not exceed the largest
\* Balance.
C17_NoCreditOverflow ==
    (/\ Len(calls) > 1
     /\ RanTransferImpl
     /\ PreBalance(Last.from) >= Last.value)
    => PreBalance(Last.to) + Last.value <= MaxBalance

\* The Transfer events among the first n of the log that name account a:
\* the values sent to a minus the values sent from a.
RECURSIVE NetOfEvents(_, _)
NetOfEvents(a, n) ==
    IF n = 0 THEN 0
    ELSE LET e == events[n]
         IN  NetOfEvents(a, n - 1)
             + (IF e.type = "Transfer" /\ e.to = a THEN e.value ELSE 0)
             - (IF e.type = "Transfer" /\ e.from = a THEN e.value ELSE 0)

\* C18. The log is a faithful record: for every account a, balance_of(a) is
\* the sum of the values of the Transfer events to a minus the sum of those
\* from a; and the number of Transfer events is 1 (the mint) plus the number
\* of transfer and transfer_from messages that returned true.
C18_LogIsLedger ==
    /\ \A a \in Accounts : balance_of(a) = NetOfEvents(a, Len(events))
    /\ Cardinality({n \in 1..Len(events) : events[n].type = "Transfer"})
         = 1 + Cardinality({n \in 2..Len(calls) : Moved(n)})

\* C19. Frame of transfers: transfer(to, value) changes no allowance and no
\* balance but those of caller and to; transfer_from(from, to, value)
\* changes no balance but those of from and to and no allowance but
\* (from, caller).
C19_TransferFrame ==
    /\ Last.op = "transfer"
       => /\ AllowancesUnchanged
          /\ \A a \in Accounts \ {Last.caller, Last.to} :
                balance_of(a) = PreBalance(a)
    /\ Last.op = "transfer_from"
       => /\ \A a \in Accounts \ {Last.from, Last.to} :
                balance_of(a) = PreBalance(a)
          /\ \A o \in Accounts, s \in Accounts :
                <<o, s>> # <<Last.from, Last.caller>>
                => allowance(o, s) = PreAllowance(o, s)

\* A transfer_from moved tokens between two accounts, sent by a third, while
\* an account outside the move held tokens.
C19_Witness ==
    /\ Last.op = "transfer_from"
    /\ Last.result = "true"
    /\ Last.value > 0
    /\ Last.from # Last.to
    /\ Last.caller \notin {Last.from, Last.to}
    /\ balance_of(Last.from) # PreBalance(Last.from)

\* C20. Zero-value calls succeed: transfer(to, 0) by any caller and
\* transfer_from(from, to, 0) by any caller return true, leave every
\* balance and every allowance as observed before, and deposit exactly one
\* Transfer event, of value 0.
C20_ZeroValue ==
    (/\ Last.op \in {"transfer", "transfer_from"}
     /\ Last.value = 0)
    => /\ Last.result = "true"
       /\ BalancesUnchanged
       /\ AllowancesUnchanged
       /\ Emitted = <<TransferEvent(Last.from, Last.to, 0)>>

\* A transfer_from of 0 by a caller without allowance, from an owner
\* without tokens.
C20_Witness ==
    /\ Last.op = "transfer_from"
    /\ Last.value = 0
    /\ Last.caller # Last.from
    /\ PreAllowance(Last.from, Last.caller) = 0
    /\ PreBalance(Last.from) = 0
    /\ PreBalance(Last.caller) = 0

====
